---- MODULE Spec2Model ----
(***************************************************************************)
(* Model of src/dns.rs of doh-server: the DNS wire-format helpers rcode,   *)
(* is_recoverable_error, min_ttl and set_edns_max_payload_size, with the   *)
(* private walkers skip_name, traverse_rrs and traverse_rrs_mut.           *)
(*                                                                         *)
(* A packet is a sequence of bytes (0..255); the byte the code writes as   *)
(* packet[i] is packet[i + 1] here.  Every function is an operator that    *)
(* returns a record whose kind is "ok", "err" (an Err(&str) return, err    *)
(* holding the message) or "panic" (the thread unwinds: an out-of-bounds   *)
(* index, a failed assert!, or an arithmetic overflow in a build with      *)
(* overflow checks).  The variable overflow_checks is the build: TRUE for  *)
(* a build with overflow checks (debug), FALSE for one whose integer       *)
(* arithmetic wraps (release).                                             *)
(*                                                                         *)
(* A usize value that wrapped below zero is kept as the negative integer   *)
(* r that stands for r + 2^64; ULt compares two such representatives as    *)
(* the unsigned numbers they stand for.                                    *)
(***************************************************************************)
EXTENDS Integers, Sequences, FiniteSets, TLC

VARIABLES packet, overflow_checks, nset, res, prev

vars == <<packet, overflow_checks, nset, res, prev>>

-----------------------------------------------------------------------------
(* Program constants *)

DNS_HEADER_SIZE == 12
DNS_MAX_HOSTNAME_LEN == 256
DNS_MAX_PACKET_SIZE == 65535
DNS_OFFSET_QUESTION == DNS_HEADER_SIZE
DNS_TYPE_OPT == 41
DNS_RCODE_SERVFAIL == 2
DNS_RCODE_REFUSED == 5
OPT_RR_LEN == 11
U16_MAX == 65535

-----------------------------------------------------------------------------
(* Results and machine arithmetic *)

Ok(v) == [kind |-> "ok", err |-> "", val |-> v]
Err(e) == [kind |-> "err", err |-> e, val |-> 0]
Panic(e) == [kind |-> "panic", err |-> e, val |-> 0]

\* a < b for two usize representatives (a negative one stands for r + 2^64)
ULt(a, b) == IF (a < 0) = (b < 0) THEN a < b ELSE b < 0

\* a - b on usize: panics on underflow with overflow checks, wraps without
USub(a, b) ==
    IF a >= b \/ ~overflow_checks THEN Ok(a - b)
    ELSE Panic("attempt to subtract with overflow")

\* a + b on u16: panics on overflow with overflow checks, wraps without
AddU16(a, b) ==
    IF a + b <= U16_MAX THEN Ok(a + b)
    ELSE IF overflow_checks THEN Panic("attempt to add with overflow")
    ELSE Ok((a + b) % (U16_MAX + 1))

\* packet[i]: a bounds-checked index
Index(p, i) ==
    IF i >= 0 /\ i < Len(p) THEN Ok(p[i + 1])
    ELSE Panic("index out of bounds")

\* (u16::from(packet[i]) << 8) | u16::from(packet[i + 1]); packet[i] is read first
U16At(p, i) ==
    IF Index(p, i).kind # "ok" THEN Index(p, i)
    ELSE IF Index(p, i + 1).kind # "ok" THEN Index(p, i + 1)
    ELSE Ok(p[i + 1] * 256 + p[i + 2])

\* A u32 is the pair <<high 16 bits, low 16 bits>>: the values run to 2^32 - 1
U32(hi, lo) == <<hi, lo>>

\* a < b on u32
LtU32(a, b) == a[1] < b[1] \/ (a[1] = b[1] /\ a[2] < b[2])

\* u32::from(packet[i]) << 24 | ... | u32::from(packet[i + 3])
U32At(p, i) ==
    IF \E k \in 0..3 : Index(p, i + k).kind # "ok" THEN Panic("index out of bounds")
    ELSE Ok(U32(p[i + 1] * 256 + p[i + 2], p[i + 3] * 256 + p[i + 4]))

HiByte(v) == (v \div 256) % 256
LoByte(v) == v % 256

-----------------------------------------------------------------------------
(* Header accessors *)

qdcount(p) == U16At(p, 4)
ancount(p) == U16At(p, 6)
nscount(p) == U16At(p, 8)
arcount(p) == U16At(p, 10)

rcode(p) ==
    IF Index(p, 3).kind # "ok" THEN Index(p, 3)
    ELSE Ok(p[4] % 16)

is_recoverable_error(p) ==
    IF rcode(p).kind # "ok" THEN rcode(p)
    ELSE Ok(IF rcode(p).val = DNS_RCODE_SERVFAIL \/ rcode(p).val = DNS_RCODE_REFUSED
            THEN 1 ELSE 0)

\* arcount_inc as it would be with the write of the new count left out
arcount_inc_stale(p) ==
    IF arcount(p).kind # "ok"
    THEN [kind |-> "panic", err |-> "index out of bounds", packet |-> p]
    ELSE IF arcount(p).val = U16_MAX
    THEN [kind |-> "err", err |-> "Too many additional records", packet |-> p]
    ELSE [kind |-> "ok", err |-> "", packet |-> p]

\* returns the packet with the additional count raised by one
arcount_inc(p) ==
    IF arcount(p).kind # "ok"
    THEN [kind |-> "panic", err |-> "index out of bounds", packet |-> p]
    ELSE IF arcount(p).val = U16_MAX
    THEN [kind |-> "err", err |-> "Too many additional records", packet |-> p]
    ELSE [kind |-> "ok", err |-> "",
          packet |-> [p EXCEPT ![11] = HiByte(arcount(p).val + 1),
                               ![12] = LoByte(arcount(p).val + 1)]]

-----------------------------------------------------------------------------
(* skip_name *)

SkipRes(k, e, o, l) == [kind |-> k, err |-> e, offset |-> o, labels |-> l]

RECURSIVE skip_name_loop(_, _, _, _)
skip_name_loop(p, offset, name_len, labels_count) ==
    LET packet_len == Len(p)
        b == Index(p, offset)
        rem == USub(packet_len, offset)
    IN
    IF b.kind # "ok" THEN SkipRes("panic", b.err, offset, labels_count)
    ELSE IF (b.val \div 64) * 64 = 192
    THEN IF rem.kind # "ok" THEN SkipRes("panic", rem.err, offset, labels_count)
         ELSE IF ULt(rem.val, 2)
         THEN SkipRes("err", "Incomplete offset", offset, labels_count)
         ELSE SkipRes("ok", "", offset + 2, labels_count)
    ELSE IF b.val > 63 THEN SkipRes("err", "Label too long", offset, labels_count)
    ELSE LET label_len == b.val
             rem1 == IF rem.kind = "ok" THEN USub(rem.val, 1) ELSE rem
         IN
         IF rem1.kind # "ok" THEN SkipRes("panic", rem1.err, offset, labels_count)
         ELSE IF ~ULt(label_len, rem1.val)
         THEN SkipRes("err", "Malformed packet with an out-of-bounds name",
                      offset, labels_count)
         ELSE IF name_len + label_len + 1 > DNS_MAX_HOSTNAME_LEN
         THEN SkipRes("err", "Name too long", offset, labels_count)
         ELSE IF label_len = 0
         THEN SkipRes("ok", "", offset + label_len + 1, labels_count)
         ELSE skip_name_loop(p, offset + label_len + 1,
                             name_len + label_len + 1, labels_count + 1)

skip_name(p, offset) ==
    LET lim == USub(Len(p), 1) IN
    IF lim.kind # "ok" THEN SkipRes("panic", lim.err, offset, 0)
    ELSE IF ~ULt(offset, lim.val) THEN SkipRes("err", "Short packet", offset, 0)
    ELSE skip_name_loop(p, offset, 0, 0)

-----------------------------------------------------------------------------
(* traverse_rrs and traverse_rrs_mut.  The closure a caller passes is named *)
(* by cb and its captured state is env; visited lists the offsets handed to *)
(* the callback, in order.  Each function is cut into the operators that    *)
(* take the result of one step as a parameter.                              *)

WalkRes(k, e, o, env, visited) ==
    [kind |-> k, err |-> e, offset |-> o, env |-> env, visited |-> visited]

CbRes(k, e, env) == [kind |-> k, err |-> e, env |-> env]

\* the closure of min_ttl, lines 171-179: env is found_min_ttl
min_ttl_cb(p, offset, found_min_ttl) ==
    IF U16At(p, offset).kind # "ok" \/ U32At(p, offset + 4).kind # "ok"
    THEN CbRes("panic", "index out of bounds", found_min_ttl)
    ELSE IF U16At(p, offset).val # DNS_TYPE_OPT
            /\ LtU32(U32At(p, offset + 4).val, found_min_ttl)
    THEN CbRes("ok", "", U32At(p, offset + 4).val)
    ELSE CbRes("ok", "", found_min_ttl)

\* the closure |_offset| Ok(()) of set_edns_max_payload_size
noop_cb(p, offset, env) == CbRes("ok", "", env)

ReadCb(cb, p, offset, env) ==
    IF cb = "min_ttl" THEN min_ttl_cb(p, offset, env) ELSE noop_cb(p, offset, env)

RECURSIVE traverse_rrs_loop(_, _, _, _, _, _)

\* lines 103-108: after the callback returned c for the record at offset
traverse_rrs_rdata(p, offset, rrcount, cb, c, seen) ==
    IF c.kind # "ok" THEN WalkRes(c.kind, c.err, offset, c.env, seen)
    ELSE IF U16At(p, offset + 8).kind # "ok"
    THEN WalkRes("panic", "index out of bounds", offset, c.env, seen)
    ELSE IF USub(Len(p), offset + 10).kind # "ok"
    THEN WalkRes("panic", "attempt to subtract with overflow", offset + 10, c.env, seen)
    ELSE IF ULt(USub(Len(p), offset + 10).val, U16At(p, offset + 8).val)
    THEN WalkRes("err", "Record length would exceed packet length",
                 offset + 10, c.env, seen)
    ELSE traverse_rrs_loop(p, offset + 10 + U16At(p, offset + 8).val, rrcount - 1,
                           cb, c.env, seen)

\* lines 95-102: after skip_name returned s for the name at offset
traverse_rrs_record(p, offset, s, rrcount, cb, env, visited) ==
    IF s.kind # "ok" THEN WalkRes(s.kind, s.err, offset, env, visited)
    ELSE IF USub(Len(p), s.offset).kind # "ok"
    THEN WalkRes("panic", "attempt to subtract with overflow", s.offset, env, visited)
    ELSE IF ULt(USub(Len(p), s.offset).val, 10)
    THEN WalkRes("err", "Short packet", s.offset, env, visited)
    ELSE traverse_rrs_rdata(p, s.offset, rrcount, cb, ReadCb(cb, p, s.offset, env),
                            Append(visited, s.offset))

traverse_rrs_loop(p, offset, rrcount, cb, env, visited) ==
    IF rrcount = 0 THEN WalkRes("ok", "", offset, env, visited)
    ELSE traverse_rrs_record(p, offset, skip_name(p, offset), rrcount, cb, env, visited)

traverse_rrs(p, offset, rrcount, cb, env) ==
    traverse_rrs_loop(p, offset, rrcount, cb, env, <<>>)

MutRes(k, e, o, p, set, visited) ==
    [kind |-> k, err |-> e, offset |-> o, packet |-> p,
     edns_payload_set |-> set, visited |-> visited]

MutCbRes(k, e, p, set) == [kind |-> k, err |-> e, packet |-> p, set |-> set]

\* the closure as it would be writing max_payload_size low byte first
set_edns_cb_little_endian(p, offset, max_payload_size, edns_payload_set) ==
    IF U16At(p, offset).kind # "ok"
    THEN MutCbRes("panic", "index out of bounds", p, edns_payload_set)
    ELSE IF U16At(p, offset).val # DNS_TYPE_OPT
    THEN MutCbRes("ok", "", p, edns_payload_set)
    ELSE IF edns_payload_set
    THEN MutCbRes("err", "Duplicate OPT RR found", p, edns_payload_set)
    ELSE MutCbRes("ok", "",
                  [p EXCEPT ![offset + 3] = LoByte(max_payload_size),
                            ![offset + 4] = HiByte(max_payload_size)],
                  TRUE)

\* the closure as it would be without the check of edns_payload_set
set_edns_cb_no_duplicate_check(p, offset, max_payload_size, edns_payload_set) ==
    IF U16At(p, offset).kind # "ok"
    THEN MutCbRes("panic", "index out of bounds", p, edns_payload_set)
    ELSE IF U16At(p, offset).val # DNS_TYPE_OPT
    THEN MutCbRes("ok", "", p, edns_payload_set)
    ELSE MutCbRes("ok", "",
                  [p EXCEPT ![offset + 3] = HiByte(max_payload_size),
                            ![offset + 4] = LoByte(max_payload_size)],
                  TRUE)

\* the closure of set_edns_max_payload_size, lines 243-252: it captures
\* max_payload_size and edns_payload_set and writes the record's class field
set_edns_cb(p, offset, max_payload_size, edns_payload_set) ==
    IF U16At(p, offset).kind # "ok"
    THEN MutCbRes("panic", "index out of bounds", p, edns_payload_set)
    ELSE IF U16At(p, offset).val # DNS_TYPE_OPT
    THEN MutCbRes("ok", "", p, edns_payload_set)
    ELSE IF edns_payload_set
    THEN MutCbRes("err", "Duplicate OPT RR found", p, edns_payload_set)
    ELSE IF Index(p, offset + 3).kind # "ok"
    THEN MutCbRes("panic", "index out of bounds", p, edns_payload_set)
    ELSE MutCbRes("ok", "",
                  [p EXCEPT ![offset + 3] = HiByte(max_payload_size),
                            ![offset + 4] = LoByte(max_payload_size)],
                  TRUE)

RECURSIVE traverse_rrs_mut_loop(_, _, _, _, _, _)

\* lines 129-134: after the callback returned c for the record at offset
traverse_rrs_mut_rdata(offset, rrcount, max_payload_size, c, seen) ==
    IF c.kind # "ok" THEN MutRes(c.kind, c.err, offset, c.packet, c.set, seen)
    ELSE IF U16At(c.packet, offset + 8).kind # "ok"
    THEN MutRes("panic", "index out of bounds", offset, c.packet, c.set, seen)
    ELSE IF USub(Len(c.packet), offset + 10).kind # "ok"
    THEN MutRes("panic", "attempt to subtract with overflow", offset + 10,
                c.packet, c.set, seen)
    ELSE IF ULt(USub(Len(c.packet), offset + 10).val, U16At(c.packet, offset + 8).val)
    THEN MutRes("err", "Record length would exceed packet length",
                offset + 10, c.packet, c.set, seen)
    ELSE traverse_rrs_mut_loop(c.packet, offset + 10 + U16At(c.packet, offset + 8).val,
                               rrcount - 1, max_payload_size, c.set, seen)

\* lines 121-128: after skip_name returned s for the name at offset
traverse_rrs_mut_record(p, offset, s, rrcount, max_payload_size, edns_payload_set, visited) ==
    IF s.kind # "ok" THEN MutRes(s.kind, s.err, offset, p, edns_payload_set, visited)
    ELSE IF USub(Len(p), s.offset).kind # "ok"
    THEN MutRes("panic", "attempt to subtract with overflow", s.offset, p,
                edns_payload_set, visited)
    ELSE IF ULt(USub(Len(p), s.offset).val, 10)
    THEN MutRes("err", "Short packet", s.offset, p, edns_payload_set, visited)
    ELSE traverse_rrs_mut_rdata(s.offset, rrcount, max_payload_size,
                                set_edns_cb(p, s.offset, max_payload_size,
                                            edns_payload_set),
                                Append(visited, s.offset))

traverse_rrs_mut_loop(p, offset, rrcount, max_payload_size, edns_payload_set, visited) ==
    IF rrcount = 0 THEN MutRes("ok", "", offset, p, edns_payload_set, visited)
    ELSE traverse_rrs_mut_record(p, offset, skip_name(p, offset), rrcount,
                                 max_payload_size, edns_payload_set, visited)

traverse_rrs_mut(p, offset, rrcount, max_payload_size, edns_payload_set) ==
    traverse_rrs_mut_loop(p, offset, rrcount, max_payload_size, edns_payload_set, <<>>)

-----------------------------------------------------------------------------
(* The validation both public walkers start with (lines 145-163, 216-234): *)
(* the offset after the question on success.                               *)

\* lines 159-163: after skip_name returned s for the question name
prelude_question(p, s) ==
    IF s.kind # "ok" THEN [kind |-> s.kind, err |-> s.err, val |-> 0]
    ELSE IF ~(s.offset > DNS_OFFSET_QUESTION)
    THEN Panic("assertion failed: offset > DNS_OFFSET_QUESTION")
    ELSE IF USub(Len(p), s.offset).kind # "ok" THEN USub(Len(p), s.offset)
    ELSE IF ULt(USub(Len(p), s.offset).val, 4) THEN Err("Short packet")
    ELSE Ok(s.offset + 4)

prelude(p) ==
    IF qdcount(p).kind # "ok" THEN qdcount(p)
    ELSE IF qdcount(p).val # 1 THEN Err("Unsupported number of questions")
    ELSE IF Len(p) <= DNS_OFFSET_QUESTION THEN Err("Short packet")
    ELSE IF Len(p) >= DNS_MAX_PACKET_SIZE THEN Err("Large packet")
    ELSE prelude_question(p, skip_name(p, DNS_OFFSET_QUESTION))

-----------------------------------------------------------------------------
(* min_ttl *)

TtlRes(k, e, v, rrcount, visited, offset) ==
    [kind |-> k, err |-> e, val |-> v, rrcount |-> rrcount,
     visited |-> visited, offset |-> offset]

\* min_ttl's end as it would be without the comparison of offset and packet_len
min_ttl_finish_no_length_check(p, min_ttl_arg, rrcount, w) ==
    IF w.kind # "ok" THEN TtlRes(w.kind, w.err, U32(0, 0), rrcount, w.visited, w.offset)
    ELSE TtlRes("ok", "", IF LtU32(w.env, min_ttl_arg) THEN min_ttl_arg ELSE w.env,
                rrcount, w.visited, w.offset)

\* lines 181-187: after traverse_rrs returned w
min_ttl_finish(p, min_ttl_arg, rrcount, w) ==
    IF w.kind # "ok" THEN TtlRes(w.kind, w.err, U32(0, 0), rrcount, w.visited, w.offset)
    ELSE IF w.offset # Len(p)
    THEN TtlRes("err", "Garbage after packet", U32(0, 0), rrcount, w.visited, w.offset)
    ELSE TtlRes("ok", "", IF LtU32(w.env, min_ttl_arg) THEN min_ttl_arg ELSE w.env,
                rrcount, w.visited, w.offset)

\* lines 167-170: rrcount is the result of ancount + nscount + arcount
min_ttl_walk(p, offset, min_ttl_arg, max_ttl, failure_ttl, rrcount) ==
    IF rrcount.kind # "ok"
    THEN TtlRes(rrcount.kind, rrcount.err, U32(0, 0), 0, <<>>, offset)
    ELSE min_ttl_finish(p, min_ttl_arg, rrcount.val,
                        traverse_rrs(p, offset, rrcount.val, "min_ttl",
                                     IF rrcount.val > 0 THEN max_ttl ELSE failure_ttl))

\* ancount + nscount + arcount on u16, left to right
AddU16x3(a, b, c) ==
    IF AddU16(a, b).kind # "ok" THEN AddU16(a, b) ELSE AddU16(AddU16(a, b).val, c)

\* lines 164-167: pre is the result of the validation
min_ttl_counts(p, pre, min_ttl_arg, max_ttl, failure_ttl) ==
    IF pre.kind # "ok" THEN TtlRes(pre.kind, pre.err, U32(0, 0), 0, <<>>, 0)
    ELSE min_ttl_walk(p, pre.val, min_ttl_arg, max_ttl, failure_ttl,
                      AddU16x3(ancount(p).val, nscount(p).val, arcount(p).val))

min_ttl(p, min_ttl_arg, max_ttl, failure_ttl) ==
    min_ttl_counts(p, prelude(p), min_ttl_arg, max_ttl, failure_ttl)

-----------------------------------------------------------------------------
(* add_edns_section and set_edns_max_payload_size *)

PacketRes(k, e, p) == [kind |-> k, err |-> e, packet |-> p]

\* opt_rr as it would be with the two bytes of the type in the wrong order
opt_rr_type_swapped(max_payload_size) ==
    <<0, LoByte(DNS_TYPE_OPT), HiByte(DNS_TYPE_OPT),
      HiByte(max_payload_size), LoByte(max_payload_size), 0, 0, 0, 0, 0, 0>>

opt_rr(max_payload_size) ==
    <<0, HiByte(DNS_TYPE_OPT), LoByte(DNS_TYPE_OPT),
      HiByte(max_payload_size), LoByte(max_payload_size), 0, 0, 0, 0, 0, 0>>

\* lines 207-209: inc is the result of arcount_inc
add_edns_extend(inc, max_payload_size) ==
    IF inc.kind # "ok" THEN inc
    ELSE PacketRes("ok", "", inc.packet \o opt_rr(max_payload_size))

add_edns_section(p, max_payload_size) ==
    IF USub(DNS_MAX_PACKET_SIZE, Len(p)).kind # "ok"
    THEN PacketRes("panic", "attempt to subtract with overflow", p)
    ELSE IF ULt(USub(DNS_MAX_PACKET_SIZE, Len(p)).val, Len(opt_rr(max_payload_size)))
    THEN PacketRes("err", "Packet would be too large to add a new record", p)
    ELSE add_edns_extend(arcount_inc(p), max_payload_size)

EdnsRes(k, e, p, set, skipped, visited) ==
    [kind |-> k, err |-> e, packet |-> p, edns_payload_set |-> set,
     skipped |-> skipped, visited |-> visited]

\* line 258: a is the result of add_edns_section
set_edns_added(a, skipped, visited) ==
    EdnsRes(a.kind, a.err, a.packet, FALSE, skipped, visited)

\* lines 253-258: m is the result of traverse_rrs_mut
set_edns_finish(m, max_payload_size, skipped) ==
    IF m.kind # "ok"
    THEN EdnsRes(m.kind, m.err, m.packet, m.edns_payload_set, skipped, m.visited)
    ELSE IF m.edns_payload_set
    THEN EdnsRes("ok", "", m.packet, TRUE, skipped, m.visited)
    ELSE set_edns_added(add_edns_section(m.packet, max_payload_size), skipped, m.visited)

\* lines 239-242: w is the result of traverse_rrs over the answers and authorities
set_edns_additional(p, max_payload_size, skipped, w) ==
    IF w.kind # "ok" THEN EdnsRes(w.kind, w.err, p, FALSE, skipped, <<>>)
    ELSE set_edns_finish(traverse_rrs_mut(p, w.offset, arcount(p).val,
                                          max_payload_size, FALSE),
                         max_payload_size, skipped)

\* line 239: skip is the result of ancount + nscount
set_edns_skip(p, offset, max_payload_size, skip) ==
    IF skip.kind # "ok" THEN EdnsRes(skip.kind, skip.err, p, FALSE, 0, <<>>)
    ELSE set_edns_additional(p, max_payload_size, skip.val,
                             traverse_rrs(p, offset, skip.val, "noop", U32(0, 0)))

\* lines 235-239: pre is the result of the validation
set_edns_counts(p, pre, max_payload_size) ==
    IF pre.kind # "ok" THEN EdnsRes(pre.kind, pre.err, p, FALSE, 0, <<>>)
    ELSE set_edns_skip(p, pre.val, max_payload_size,
                       AddU16(ancount(p).val, nscount(p).val))

set_edns_max_payload_size(p, max_payload_size) ==
    set_edns_counts(p, prelude(p), max_payload_size)

-----------------------------------------------------------------------------
(* Inputs: the packets and arguments the operations are applied to *)

MaxRecords == 2
MaxCount == 2
MaxSetCalls == 2
MaxBufLen == 3
LargeSlack == 2

Hdr(b3, qd, an, ns, ar) ==
    <<0, 0, 129, b3, HiByte(qd), LoByte(qd), HiByte(an), LoByte(an),
      HiByte(ns), LoByte(ns), HiByte(ar), LoByte(ar)>>

\* the question a. IN A
Question == <<1, 97, 0, 0, 1, 0, 1>>

\* name, type, class, 32-bit ttl, rdlength, rdata
Rec(name, type, class, ttl, rdata) ==
    name \o <<HiByte(type), LoByte(type), HiByte(class), LoByte(class),
              HiByte(ttl[1]), LoByte(ttl[1]), HiByte(ttl[2]), LoByte(ttl[2]),
              HiByte(Len(rdata)), LoByte(Len(rdata))>> \o rdata

RecA == Rec(<<0>>, 1, 1, U32(0, 10), <<>>)
RecB == Rec(<<192, 12>>, 1, 1, U32(0, 300), <<7>>)
RecOpt == Rec(<<0>>, DNS_TYPE_OPT, 512, U32(0, 5), <<>>)
RecordShapes == {RecA, RecB, RecOpt}

RECURSIVE Bodies(_)
Bodies(n) ==
    IF n = 0 THEN {<<>>}
    ELSE Bodies(n - 1) \cup {b \o r : b \in Bodies(n - 1), r \in RecordShapes}

\* well-formed records under header counts that may or may not match them
\* (records the counts leave out are bytes after the last counted record)
CountedPackets ==
    {Hdr(128, 1, an, ns, ar) \o Question \o body :
        an \in 0..1, ns \in 0..1, ar \in 0..MaxCount, body \in Bodies(MaxRecords)}

\* a stray byte after the records
TrailerPackets ==
    {Hdr(128, 1, an, 0, ar) \o Question \o body \o <<0>> :
        an \in 0..1, ar \in 0..1, body \in Bodies(1)}

\* question names: root, pointer, reserved label type, label past the end, label + pointer
QuestionNames == {<<0>>, <<192, 12>>, <<64>>, <<3, 97>>, <<1, 97, 192, 12>>}

QuestionPackets ==
    {Hdr(128, 1, an, 0, 0) \o q \o <<0, 1, 0, 1>> \o body :
        an \in 0..1, q \in QuestionNames, body \in {<<>>, RecA}}

\* every prefix of one message, the empty buffer included
FullMessage == Hdr(130, 1, 1, 0, 1) \o Question \o RecA \o RecOpt

TruncatedPackets == {SubSeq(FullMessage, 1, n) : n \in 0..Len(FullMessage)}

\* response codes and question counts
HeaderPackets ==
    {Hdr(b3, qd, 0, 0, 0) \o Question : b3 \in {128, 130, 133, 143}, qd \in {0, 1, 2, 257}}

\* section counts whose 16-bit sum overflows
OverflowPackets ==
    {Hdr(128, 1, an, ns, ar) \o Question \o body :
        an \in {0, 1, U16_MAX}, ns \in {0, 1, U16_MAX}, ar \in {0, 1, U16_MAX},
        body \in {<<>>, RecA, RecOpt}}

\* a record whose rdlength runs past the end, and a name longer than 256
Label63 == <<63>> \o [i \in 1..63 |-> 97]

LongName == Label63 \o Label63 \o Label63 \o Label63 \o Label63 \o <<0>>

MalformedPackets ==
    {Hdr(128, 1, 1, 0, 0) \o Question \o <<0, 0, 1, 0, 1, 0, 0, 0, 10, 0, 9, 7>>,
     Hdr(128, 1, 0, 0, 1) \o Question \o <<0, 0, 41, 2, 0, 0, 0, 0, 0, 0, 9, 7>>,
     Hdr(128, 1, 0, 0, 0) \o LongName \o <<0, 1, 0, 1>>,
     Hdr(128, 1, 1, 0, 0) \o Question \o LongName \o <<0, 1, 0, 1, 0, 0, 0, 10, 0, 0>>}

Packets ==
    CountedPackets \cup TrailerPackets \cup QuestionPackets \cup TruncatedPackets \cup HeaderPackets
        \cup OverflowPackets \cup MalformedPackets

\* packets around the size limit: one answer whose rdata fills the packet
LargePacket(n, ar) ==
    LET fixed == Hdr(128, 1, 1, 0, ar) \o Question \o <<0, 0, 16, 0, 1, 0, 0, 0, 60>>
        rdlen == n - Len(fixed) - 2
    IN fixed \o <<HiByte(rdlen), LoByte(rdlen)>> \o [i \in 1..rdlen |-> 0]

LargePackets ==
    {LargePacket(n, 0) :
        n \in (DNS_MAX_PACKET_SIZE - OPT_RR_LEN - LargeSlack)..(DNS_MAX_PACKET_SIZE + 1)}

\* short buffers over a few byte values, the empty buffer included
ByteValues == {0, 1, 64, 192}

RECURSIVE Buffers(_)
Buffers(n) ==
    IF n = 0 THEN {<<>>}
    ELSE Buffers(n - 1) \cup {Append(b, x) : b \in Buffers(n - 1), x \in ByteValues}

\* min_ttl, max_ttl, failure_ttl
TtlParams ==
    {<<U32(0, 50), U32(0, 3600), U32(0, 30)>>,
     <<U32(0, 50), U32(0, 3600), U32(0, 7000)>>,
     <<U32(0, 500), U32(0, 100), U32(0, 1000)>>,
     <<U32(0, 0), U32(U16_MAX, U16_MAX), U32(1, 0)>>}

PayloadSizes == {1232, 4096}

-----------------------------------------------------------------------------
(* The state machine: res is the last call, with the packet it was given,  *)
(* and prev the call before it.                                            *)

Call(op, arg, old, kind, err, val, ttl, rrcount, visited, offset, found) ==
    [op |-> op, arg |-> arg, old |-> old, kind |-> kind, err |-> err, val |-> val,
     ttl |-> ttl, rrcount |-> rrcount, visited |-> visited, offset |-> offset,
     found |-> found]

NoCall == Call("none", <<>>, <<>>, "none", "", 0, U32(0, 0), 0, <<>>, 0, FALSE)

\* a call is made on a fresh packet or on one set_edns_max_payload_size has
\* returned; a panic ends the run
Running == res.kind # "panic" /\ res.op \in {"none", "set_edns"}

TypeOK ==
    /\ overflow_checks \in BOOLEAN
    /\ nset \in 0..MaxSetCalls
    /\ res.kind \in {"none", "ok", "err", "panic"}
    /\ \A i \in 1..Len(packet) : packet[i] \in 0..255

Init ==
    /\ packet \in Packets
    /\ overflow_checks \in BOOLEAN
    /\ nset = 0
    /\ res = NoCall
    /\ prev = NoCall

InitLarge ==
    /\ packet \in LargePackets
    /\ overflow_checks \in BOOLEAN
    /\ nset = 0
    /\ res = NoCall
    /\ prev = NoCall

InitWalk ==
    /\ packet \in Buffers(MaxBufLen) \cup TruncatedPackets \cup MalformedPackets
    /\ overflow_checks \in BOOLEAN
    /\ nset = 0
    /\ res = NoCall
    /\ prev = NoCall

CallRcode ==
    /\ Running
    /\ res' = Call("rcode", <<>>, packet, rcode(packet).kind, rcode(packet).err,
                   rcode(packet).val, U32(0, 0), 0, <<>>, 0, FALSE)
    /\ prev' = res
    /\ UNCHANGED <<packet, overflow_checks, nset>>

CallIsRecoverable ==
    /\ Running
    /\ res' = Call("is_recoverable_error", <<>>, packet,
                   is_recoverable_error(packet).kind, is_recoverable_error(packet).err,
                   is_recoverable_error(packet).val, U32(0, 0), 0, <<>>, 0, FALSE)
    /\ prev' = res
    /\ UNCHANGED <<packet, overflow_checks, nset>>

CallMinTtl ==
    /\ Running
    /\ \E t \in TtlParams :
        LET r == min_ttl(packet, t[1], t[2], t[3]) IN
        res' = Call("min_ttl", t, packet, r.kind, r.err, 0, r.val, r.rrcount,
                    r.visited, r.offset, FALSE)
    /\ prev' = res
    /\ UNCHANGED <<packet, overflow_checks, nset>>

CallSetEdns ==
    /\ Running
    /\ nset < MaxSetCalls
    /\ \E size \in PayloadSizes :
        LET r == set_edns_max_payload_size(packet, size) IN
        /\ packet' = r.packet
        /\ res' = Call("set_edns", <<size>>, packet, r.kind, r.err, 0, U32(0, 0),
                       r.skipped, r.visited, 0, r.edns_payload_set)
    /\ nset' = nset + 1
    /\ prev' = res
    /\ UNCHANGED overflow_checks

CallSkipName ==
    /\ Running
    /\ \E offset \in 0..(Len(packet) + 1) :
        LET r == skip_name(packet, offset) IN
        res' = Call("skip_name", <<offset>>, packet, r.kind, r.err, r.labels,
                    U32(0, 0), 0, <<>>, r.offset, FALSE)
    /\ prev' = res
    /\ UNCHANGED <<packet, overflow_checks, nset>>

CallTraverseRrs ==
    /\ Running
    /\ \E offset \in 0..Len(packet), rrcount \in 0..MaxCount :
        LET r == traverse_rrs(packet, offset, rrcount, "noop", U32(0, 0)) IN
        res' = Call("traverse_rrs", <<offset, rrcount>>, packet, r.kind, r.err, 0,
                    U32(0, 0), rrcount, r.visited, r.offset, FALSE)
    /\ prev' = res
    /\ UNCHANGED <<packet, overflow_checks, nset>>

CallTraverseRrsMut ==
    /\ Running
    /\ nset < MaxSetCalls
    /\ \E offset \in 0..Len(packet), rrcount \in 0..MaxCount, size \in PayloadSizes :
        LET r == traverse_rrs_mut(packet, offset, rrcount, size, FALSE) IN
        /\ packet' = r.packet
        /\ res' = Call("traverse_rrs_mut", <<offset, rrcount, size>>, packet, r.kind,
                       r.err, 0, U32(0, 0), rrcount, r.visited, r.offset,
                       r.edns_payload_set)
    /\ nset' = nset + 1
    /\ prev' = res
    /\ UNCHANGED overflow_checks

Next == CallRcode \/ CallIsRecoverable \/ CallMinTtl \/ CallSetEdns

NextWalk == CallSkipName \/ CallTraverseRrs \/ CallTraverseRrsMut

Spec == Init /\ [][Next]_vars

SpecLarge == InitLarge /\ [][Next]_vars

SpecWalk == InitWalk /\ [][NextWalk]_vars

-----------------------------------------------------------------------------
(* What the properties below read off a packet, walked with the read-only  *)
(* walker from the header counts                                           *)

MaxU32(a, b) == IF LtU32(a, b) THEN b ELSE a

\* the integer sums of the header counts, taken without any width
SumAnNs(p) == ancount(p).val + nscount(p).val

SumAll(p) == ancount(p).val + nscount(p).val + arcount(p).val

\* the walk over the answer and authority records, then over the additional ones
AnswersWalk(p) ==
    traverse_rrs(p, prelude(p).val, AddU16(ancount(p).val, nscount(p).val).val,
                 "noop", U32(0, 0))

AdditionalWalk(p) ==
    traverse_rrs(p, AnswersWalk(p).offset, arcount(p).val, "noop", U32(0, 0))

\* the buffer passes the validation and all three sections walk to their end
Parses(p) ==
    /\ prelude(p).kind = "ok"
    /\ AddU16(ancount(p).val, nscount(p).val).kind = "ok"
    /\ AnswersWalk(p).kind = "ok"
    /\ AdditionalWalk(p).kind = "ok"

\* a valid single-question buffer: it parses, and its counts need no wrapping
Valid(p) == Parses(p) /\ SumAnNs(p) <= U16_MAX

TypeAt(p, offset) == U16At(p, offset).val

\* the offsets (of the type field) of the OPT records of the additional section
OptOffsets(p) ==
    {o \in {AdditionalWalk(p).visited[k] : k \in 1..Len(AdditionalWalk(p).visited)} :
        TypeAt(p, o) = DNS_TYPE_OPT}

FirstOpt(p) == CHOOSE o \in OptOffsets(p) : \A q \in OptOffsets(p) : o <= q

\* q is p with the two bytes after the type field at offset set to size,
\* and nothing else changed
OnlyPayloadSet(p, q, offset, size) ==
    /\ Len(q) = Len(p)
    /\ q[offset + 3] = HiByte(size)
    /\ q[offset + 4] = LoByte(size)
    /\ \A i \in 1..Len(p) : i \notin {offset + 3, offset + 4} => q[i] = p[i]

IsSetEdns == res.op = "set_edns"

IsMinTtl == res.op = "min_ttl"

-----------------------------------------------------------------------------
(* C1: each of rcode, is_recoverable_error, min_ttl and                    *)
(* set_edns_max_payload_size, on a buffer of any length and content,       *)
(* returns a value or an error: no call ends in a panic (an out-of-bounds  *)
(* index, an arithmetic overflow, the failed assertion).                   *)
C1_NeverPanics == res.kind # "panic"

-----------------------------------------------------------------------------
(* C2: when set_edns_max_payload_size succeeds on a buffer whose additional *)
(* section holds no OPT record, the buffer is 11 bytes longer, the          *)
(* additional count at bytes 10-11 is the old one plus 1, the appended      *)
(* bytes are root name, type 41, size in big-endian and six zeros, and all  *)
(* other bytes are as before.                                               *)
C2_AppendsOpt ==
    (IsSetEdns /\ res.kind = "ok" /\ OptOffsets(res.old) = {}) =>
        /\ Len(packet) = Len(res.old) + 11
        /\ arcount(packet).val = arcount(res.old).val + 1
        /\ SubSeq(packet, Len(res.old) + 1, Len(packet))
             = <<0, 0, 41, HiByte(res.arg[1]), LoByte(res.arg[1]), 0, 0, 0, 0, 0, 0>>
        /\ \A i \in 1..Len(res.old) : i \notin {11, 12} => packet[i] = res.old[i]

\* an OPT record was appended behind an additional section of non-OPT records
C2_Witness ==
    /\ IsSetEdns /\ res.kind = "ok" /\ OptOffsets(res.old) = {}
    /\ Len(AdditionalWalk(res.old).visited) >= 1
    /\ Len(packet) = Len(res.old) + 11
    /\ arcount(packet).val = 2

-----------------------------------------------------------------------------
(* C3: on a valid single-question buffer whose additional section holds     *)
(* exactly one OPT record, set_edns_max_payload_size succeeds, the length   *)
(* and the four header counts stay, the two bytes after that record's type  *)
(* field are size in big-endian, and no other byte changes.                 *)
C3_RewritesOpt ==
    (IsSetEdns /\ Valid(res.old) /\ Cardinality(OptOffsets(res.old)) = 1) =>
        /\ res.kind = "ok"
        /\ OnlyPayloadSet(res.old, packet, FirstOpt(res.old), res.arg[1])
        /\ SubSeq(packet, 5, 12) = SubSeq(res.old, 5, 12)

\* the one OPT record, behind another additional record, got a new payload size
C3_Witness ==
    /\ IsSetEdns /\ Valid(res.old) /\ Cardinality(OptOffsets(res.old)) = 1
    /\ Len(AdditionalWalk(res.old).visited) >= 2
    /\ res.kind = "ok"
    /\ packet # res.old

-----------------------------------------------------------------------------
(* C4: set_edns_max_payload_size never succeeds with a buffer of 65,535     *)
(* bytes or more: every buffer it returns successfully is at most 65,534    *)
(* bytes long and passes the length check of min_ttl.                       *)
C4_StaysBelowCeiling ==
    (IsSetEdns /\ res.kind = "ok") => Len(packet) < DNS_MAX_PACKET_SIZE

-----------------------------------------------------------------------------
(* C5: whenever min_ttl succeeds its result is max(min_ttl, base), base     *)
(* being failure_ttl if the answer, authority and additional counts sum to  *)
(* 0 and otherwise the minimum of max_ttl and the TTLs of the walked        *)
(* records that are not OPT records.                                        *)
WalkedTtls(p, visited) ==
    {U32At(p, visited[k] + 4).val :
        k \in {j \in 1..Len(visited) : TypeAt(p, visited[j]) # DNS_TYPE_OPT}}

MinU32(S) == CHOOSE a \in S : \A b \in S : ~LtU32(b, a)

C5_Base ==
    IF SumAll(res.old) = 0 THEN res.arg[3]
    ELSE MinU32({res.arg[2]} \cup WalkedTtls(res.old, res.visited))

\* C5: a successful min_ttl returns max(min_ttl, base)
C5_TtlFormula ==
    (IsMinTtl /\ res.kind = "ok") => res.ttl = MaxU32(res.arg[1], C5_Base)

-----------------------------------------------------------------------------
(* C6: min_ttl returns a TTL only if its walk over the question and the     *)
(* records ended exactly at the buffer length; when the validation passes   *)
(* and the walk succeeds but ends before the buffer length, it fails with   *)
(* "Garbage after packet".                                                  *)
C6_Walk == traverse_rrs(res.old, prelude(res.old).val, res.rrcount, "noop", U32(0, 0))

-----------------------------------------------------------------------------
(* C7: with two or more OPT records in the additional section of a valid    *)
(* single-question buffer, set_edns_max_payload_size fails with "Duplicate  *)
(* OPT RR found"; the payload field of the first OPT record is already      *)
(* size, and the length, the additional count, the second OPT record and    *)
(* every other byte are as before.                                          *)
C7_DuplicateOpt ==
    (IsSetEdns /\ Valid(res.old) /\ Cardinality(OptOffsets(res.old)) >= 2) =>
        /\ res.kind = "err"
        /\ res.err = "Duplicate OPT RR found"
        /\ OnlyPayloadSet(res.old, packet, FirstOpt(res.old), res.arg[1])

\* the call failed at the second OPT record with the first one rewritten
C7_Witness ==
    /\ IsSetEdns /\ Valid(res.old) /\ Cardinality(OptOffsets(res.old)) >= 2
    /\ res.err = "Duplicate OPT RR found"
    /\ packet # res.old

-----------------------------------------------------------------------------
-----------------------------------------------------------------------------
(* C9: the number of records min_ttl walks is the integer sum of the        *)
(* answer, authority and additional counts, and the number                  *)
(* set_edns_max_payload_size skips before the additional section is the     *)
(* integer sum of the answer and authority counts: the 16-bit additions     *)
(* neither overflow nor wrap.                                               *)
C9_CountsNeverWrap ==
    /\ (IsMinTtl /\ prelude(res.old).kind = "ok") =>
        (res.kind # "panic" /\ res.rrcount = SumAll(res.old))
    /\ (IsSetEdns /\ prelude(res.old).kind = "ok") =>
        (res.kind # "panic" /\ res.rrcount = SumAnNs(res.old))

-----------------------------------------------------------------------------
(* C10: after set_edns_max_payload_size(buffer, s1) succeeds on a buffer    *)
(* short enough to take 11 more bytes, the additional section of the        *)
(* result, walked from the header counts, holds exactly one OPT record, and *)
(* a following call with s2 succeeds, keeps the length and the additional   *)
(* count, and leaves that record's payload field equal to s2 (the same      *)
(* buffer when s2 = s1).                                                    *)
C10_ShortEnough(r) == Len(r.old) + OPT_RR_LEN < DNS_MAX_PACKET_SIZE

\* the end of the walk over all counted records of the buffer
RecordsEnd(p) == AdditionalWalk(p).offset

\* the call appended its OPT record behind bytes that follow the last counted record
AppendedBehindGarbage(r) == ~r.found /\ RecordsEnd(r.old) # Len(r.old)

C10_FirstCall(r) == r.op = "set_edns" /\ r.kind = "ok" /\ C10_ShortEnough(r)

\* after the call res: exactly one OPT record in the additional section
C10_OneOpt == Cardinality(OptOffsets(packet)) = 1

\* the call res, made right after the call prev
C10_SecondCall ==
    /\ res.kind = "ok"
    /\ Cardinality(OptOffsets(res.old)) = 1
    /\ OnlyPayloadSet(res.old, packet, FirstOpt(res.old), res.arg[1])
    /\ arcount(packet) = arcount(res.old)
    /\ res.arg[1] = prev.arg[1] => packet = res.old

\* C10 as written: for every buffer, bytes after the last counted record or not
C10_Original ==
    /\ C10_FirstCall(res) => C10_OneOpt
    /\ (C10_FirstCall(prev) /\ IsSetEdns) => C10_SecondCall

\* C10 amended: for the calls that did not append their OPT record behind bytes
\* that follow the last counted record
C10_Amended ==
    /\ (C10_FirstCall(res) /\ ~AppendedBehindGarbage(res)) => C10_OneOpt
    /\ (C10_FirstCall(prev) /\ ~AppendedBehindGarbage(prev) /\ IsSetEdns)
        => C10_SecondCall

\* a second call rewrote the OPT record the first call had appended
C10_Witness ==
    /\ prev.op = "set_edns" /\ prev.kind = "ok" /\ ~prev.found
    /\ C10_ShortEnough(prev)
    /\ IsSetEdns /\ res.kind = "ok" /\ res.found
    /\ res.arg[1] # prev.arg[1]
    /\ packet # res.old

====
